---- MODULE Spec2Model ----
(***************************************************************************)
(* To-Do API: the request handlers of app/routers/tasks.py and the gateway *)
(* functions of app/crud.py over the single table "tasks" of               *)
(* app/models.py.  Every `await` on the database session is one step of a  *)
(* request; requests of different clients interleave at these steps.  The  *)
(* database is PostgreSQL (ALTER SEQUENCE tasks_id_seq) at its default     *)
(* isolation level READ COMMITTED, and a session opens its transaction at  *)
(* its first statement and ends it at commit().                            *)
(***************************************************************************)
EXTENDS Integers, Sequences, FiniteSets, TLC

VARIABLES
    rows,        \* the committed rows of table tasks
    seq,         \* the value the next nextval('tasks_id_seq') returns
    seqLock,     \* the request whose open transaction restarted the sequence, or 0
    clock,       \* the wall clock datetime.utcnow() reads
    nins,        \* number of INSERT statements executed so far
    nreq,        \* number of requests received so far
    pc,          \* pc[p]: the statement request slot p issues next
    req,         \* req[p]: the request slot p is handling
    loc,         \* loc[p]: the handler's local state
    resp,        \* resp[p]: the response of a finished request
    gone,        \* ids removed by a 204 delete-by-id and not assigned again since
    afterReset,  \* a reset committed and no INSERT was executed since
    tw           \* the paired PUT / PATCH runs of the equivalence check

vars == <<rows, seq, seqLock, clock, nins, nreq, pc, req, loc, resp, gone, afterReset, tw>>

--------------------------------------------------------------------------
(* Bounds of the exploration *)

MaxClock == 1
MaxInserts == 2
MaxRequests == 4

Procs == {1, 2}
TaskIds == {1, 2}
Skips == {-1, 0, 1}
Limits == {-1, 1, 100}

--------------------------------------------------------------------------
(* Values *)

\* Optional[...]: None is the empty set, a present value v is {v}
None == {}
Some(v) == {v}
Val(o) == CHOOSE v \in o : TRUE

TitleMax == 100
DescMax == 500
LongTitle == "ttttttttttttttttttttttttttttttttttttttttttttttttttttttttttttttttttttttttttttttttttttttttttttttttttttt"
LongDesc == "ddddddddddddddddddddddddddddddddddddddddddddddddddddddddddddddddddddddddddddddddddddddddddddddddddddddddddddddddddddddddddddddddddddddddddddddddddddddddddddddddddddddddddddddddddddddddddddddddddddddddddddddddddddddddddddddddddddddddddddddddddddddddddddddddddddddddddddddddddddddddddddddddddddddddddddddddddddddddddddddddddddddddddddddddddddddddddddddddddddddddddddddddddddddddddddddddddddddddddddddddddddddddddddddddddddddddddddddddddddddddddddddddddddddddddddddddddddddddddddddddddddddddddddddddddddd"

HTTP_200_OK == 200
HTTP_201_CREATED == 201
HTTP_204_NO_CONTENT == 204
HTTP_404_NOT_FOUND == 404
HTTP_500_INTERNAL_SERVER_ERROR == 500

\* The three updatable columns, in the order of schemas.TaskUpdate
UpdateFields == {"title", "description", "completed"}

\* schemas.TaskCreate(**body): description defaults to None
TaskCreate(body) ==
    [title |-> body.title,
     description |-> IF "description" \in DOMAIN body THEN body.description ELSE None]

\* schemas.TaskUpdate(**body): every field defaults to None, and the model
\* remembers which fields the body supplied (model_fields_set)
TaskUpdate(body) ==
    [title |-> IF "title" \in DOMAIN body THEN body.title ELSE None,
     description |-> IF "description" \in DOMAIN body THEN body.description ELSE None,
     completed |-> IF "completed" \in DOMAIN body THEN body.completed ELSE None,
     fields_set |-> DOMAIN body \cap UpdateFields]

\* Faulty variant: model_dump() without exclude_unset, unset fields dumped as None
model_dump_all(m) == [k \in UpdateFields |-> m[k]]

\* model.model_dump(exclude_unset=True) / model.dict(exclude_unset=True)
model_dump_exclude_unset(m) == [k \in m.fields_set |-> m[k]]

\* schemas.TaskResponse read from an ORM object (from_attributes)
TaskResponse(r) ==
    [id |-> r.id, title |-> r.title, description |-> r.description,
     completed |-> r.completed, created_at |-> r.created_at,
     updated_at |-> r.updated_at]

\* TaskResponse declares title: str, description: str, completed: bool:
\* None fails validation of the response
ValidTaskResponse(t) ==
    t.title # None /\ t.description # None /\ t.completed # None

--------------------------------------------------------------------------
(* The table: models.Task *)

\* title is NOT NULL VARCHAR(100), description VARCHAR(500); completed nullable.
\* The name of the exception the INSERT / UPDATE of row r raises, "" if none.
ColumnError(r) ==
    IF r.title = None THEN "IntegrityError"
    ELSE IF Len(Val(r.title)) > TitleMax THEN "DataError"
    ELSE IF r.description # None /\ Len(Val(r.description)) > DescMax THEN "DataError"
    ELSE ""

\* Faulty variant: id declared without primary_key
PrimaryKeyError_off(rs, id) == ""

\* id is the primary key: an INSERT of an id a stored row has is rejected
PrimaryKeyError(rs, id) ==
    IF \E r \in rs : r.id = id THEN "IntegrityError" ELSE ""

\* Faulty variant: the SELECT without its filter on id
get_task_unfiltered(rs, task_id) == rs

\* crud.get_task: SELECT ... WHERE tasks.id = :task_id, .first(); None or the row
get_task(rs, task_id) == {r \in rs : r.id = task_id}

\* The flush of crud.create_task: INSERT INTO tasks ... RETURNING id.  nextval
\* is taken first and is not given back when the statement fails.
InsertTask(rs, sq, rid, task, c, u) ==
    LET row == [rid |-> rid, id |-> sq, title |-> task.title,
                description |-> task.description, completed |-> Some(FALSE),
                created_at |-> c, updated_at |-> u]
        err == IF ColumnError(row) # "" THEN ColumnError(row)
               ELSE PrimaryKeyError(rs, sq)
    IN  [rows |-> IF err = "" THEN rs \cup {row} ELSE rs,
         seq |-> sq + 1, id |-> sq, err |-> err]

\* The setattr loop of crud.update_task and its timestamp
SetAttrs(r, update_data, now) ==
    [k \in DOMAIN r |->
        IF k = "updated_at" THEN now
        ELSE IF k \in DOMAIN update_data THEN update_data[k]
        ELSE r[k]]

\* The flush of crud.update_task: UPDATE tasks SET ... WHERE tasks.id = :id.
\* The ORM raises StaleDataError when the statement matches no row.
UpdateTask(rs, task_id, update_data, now) ==
    LET target == get_task(rs, task_id)
        errs == {ColumnError(SetAttrs(r, update_data, now)) : r \in target} \ {""}
        err == IF target = {} THEN "StaleDataError"
               ELSE IF errs # {} THEN Val(errs)
               ELSE ""
    IN  [rows |-> IF err = "" THEN (rs \ target) \cup
                                   {SetAttrs(r, update_data, now) : r \in target}
                  ELSE rs,
         err |-> err]

\* Faulty variant: the delete is never committed
DeleteTask_uncommitted(rs, task_id) ==
    [rows |-> rs, matched |-> Cardinality({r \in rs : r.id = task_id})]

\* The flush of crud.delete_task: DELETE FROM tasks WHERE tasks.id = :id.  A
\* DELETE that matches no row only warns.
DeleteTask(rs, task_id) ==
    [rows |-> rs \ get_task(rs, task_id),
     matched |-> Cardinality(get_task(rs, task_id))]

\* The rows in the order a scan without ORDER BY returns them: heap order
RECURSIVE Scan(_)
Scan(rs) ==
    IF rs = {} THEN <<>>
    ELSE LET first == CHOOSE r \in rs : \A o \in rs : r.rid <= o.rid
         IN  <<first>> \o Scan(rs \ {first})

\* crud.get_tasks: SELECT ... OFFSET :skip LIMIT :limit.  PostgreSQL rejects a
\* negative OFFSET or LIMIT.
get_tasks(rs, skip, limit) ==
    IF skip < 0 \/ limit < 0
    THEN [err |-> "DataError", tasks |-> <<>>]
    ELSE LET all == Scan(rs)
             last == IF skip + limit < Len(all) THEN skip + limit ELSE Len(all)
         IN  [err |-> "", tasks |-> SubSeq(all, skip + 1, last)]

--------------------------------------------------------------------------
(* Responses *)

NoResp == [status |-> 0, err |-> "", task |-> None, tasks |-> <<>>, count |-> 0,
           matched |-> 0]

\* A response without a body: 204, or the HTTPException 404 "Task not found"
Plain(status) == [NoResp EXCEPT !.status = status]

\* An exception no handler catches: 500
Failure(err) ==
    [NoResp EXCEPT !.status = HTTP_500_INTERNAL_SERVER_ERROR, !.err = err]

\* response_model=schemas.TaskResponse applied to what the handler returns
\* (None, or an ORM object)
Serialize(status, o) ==
    IF o # None /\ ValidTaskResponse(TaskResponse(Val(o)))
    THEN [NoResp EXCEPT !.status = status, !.task = Some(TaskResponse(Val(o)))]
    ELSE Failure("ResponseValidationError")

\* response_model=schemas.TaskListResponse applied to {"tasks": ..., "count": ...}
SerializeList(ts) ==
    IF \A i \in 1..Len(ts) : ValidTaskResponse(TaskResponse(ts[i]))
    THEN [NoResp EXCEPT !.status = HTTP_200_OK,
                        !.tasks = [i \in 1..Len(ts) |-> TaskResponse(ts[i])],
                        !.count = Len(ts)]
    ELSE Failure("ResponseValidationError")

--------------------------------------------------------------------------
(* Requests *)

EmptyBody == [k \in {} |-> None]

NoReq == [op |-> "none", task_id |-> 0, body |-> EmptyBody, skip |-> 0, limit |-> 0]

NoLoc == [t0 |-> 0, id |-> 0, del |-> {}]

CreateBodies ==
    {[title |-> Some("a")],
     [title |-> Some("a"), description |-> Some("x")],
     [title |-> Some(LongTitle)]}

UpdateBodies ==
    {EmptyBody,
     [completed |-> Some(TRUE)],
     [title |-> Some("b")],
     [title |-> None],
     [description |-> None],
     [completed |-> None],
     [title |-> Some(LongTitle)],
     [description |-> Some(LongDesc)],
     [title |-> Some("b"), description |-> Some("y"), completed |-> Some(FALSE)]}

\* The bodies the interleaved exploration draws from
FewCreateBodies == {[title |-> Some("a"), description |-> Some("x")]}
FewUpdateBodies == {[completed |-> Some(TRUE)]}

RequestsOf(creates, updates, skips, limits) ==
    {[NoReq EXCEPT !.op = "create", !.body = b] : b \in creates}
    \cup {[NoReq EXCEPT !.op = "list", !.skip = s, !.limit = l] : s \in skips, l \in limits}
    \cup {[NoReq EXCEPT !.op = "reset"]}
    \cup {[NoReq EXCEPT !.op = o, !.task_id = i] : o \in {"get", "delete"}, i \in TaskIds}
    \cup {[NoReq EXCEPT !.op = o, !.task_id = i, !.body = b] :
              o \in {"put", "patch"}, i \in TaskIds, b \in updates}

FirstStep(op) ==
    CASE op = "create" -> "insert"
      [] op = "reset" -> "delete_all"
      [] op = "patch" -> "check"
      [] OTHER -> "select"

--------------------------------------------------------------------------
(* The state machine *)

TwIdle == [pcA |-> "off"]

InitStore ==
    /\ rows = {}
    /\ seq = 1
    /\ seqLock = 0
    /\ clock = 0
    /\ nins = 0
    /\ nreq = 0
    /\ pc = [p \in Procs |-> "idle"]
    /\ req = [p \in Procs |-> NoReq]
    /\ loc = [p \in Procs |-> NoLoc]
    /\ resp = [p \in Procs |-> NoResp]
    /\ gone = {}
    /\ afterReset = FALSE

Init == InitStore /\ tw = TwIdle

Finish(p, r) ==
    /\ resp' = [resp EXCEPT ![p] = r]
    /\ pc' = [pc EXCEPT ![p] = "done"]

Goto(p, step) ==
    /\ pc' = [pc EXCEPT ![p] = step]
    /\ UNCHANGED resp

\* Row r was deleted by the open transaction of another request (a reset
\* between its DELETE and its commit): a statement that writes r, or inserts
\* its key, waits for that transaction to end.
Locked(r, p) == \E q \in Procs \ {p} : r.rid \in loc[q].del

\* INSERT statements already executed or still owed by requests in flight
InsertsDue == nins + Cardinality({q \in Procs : pc[q] = "insert"})

\* A request arrives: path and body are parsed and the handler starts
Receive(p, requests) ==
    /\ pc[p] = "idle"
    /\ nreq < MaxRequests
    /\ \E r \in requests :
         /\ r.op = "create" => InsertsDue < MaxInserts
         /\ req' = [req EXCEPT ![p] = r]
         /\ pc' = [pc EXCEPT ![p] = FirstStep(r.op)]
    /\ loc' = [loc EXCEPT ![p] = [NoLoc EXCEPT !.t0 = clock]]
    /\ UNCHANGED <<rows, seq, seqLock, clock, nins, resp, gone, afterReset, tw>>
    /\ nreq' = nreq + 1

\* The response is sent and the session closed
Return(p) ==
    /\ pc[p] = "done"
    /\ pc' = [pc EXCEPT ![p] = "idle"]
    /\ req' = [req EXCEPT ![p] = NoReq]
    /\ loc' = [loc EXCEPT ![p] = NoLoc]
    /\ resp' = [resp EXCEPT ![p] = NoResp]
    /\ UNCHANGED <<rows, seq, seqLock, clock, nins, gone, afterReset, tw, nreq>>

\* Time passes
Tick ==
    /\ clock < MaxClock
    /\ clock' = clock + 1
    /\ UNCHANGED <<rows, seq, seqLock, nins, pc, req, loc, resp, gone, afterReset, tw, nreq>>

\* POST /tasks/ : routers.create_task -> crud.create_task
create_task(p) ==
    /\ req[p].op = "create"
    /\ CASE pc[p] = "insert" ->
            \* created_at and updated_at are two clock readings taken before
            \* the INSERT reaches the database
            /\ seqLock = 0
            /\ \A r \in get_task(rows, seq) : ~Locked(r, p)
            /\ \E c \in loc[p].t0..clock : \E u \in c..clock :
                 LET res == InsertTask(rows, seq, nins + 1, TaskCreate(req[p].body), c, u)
                 IN  /\ rows' = res.rows
                     /\ seq' = res.seq
                     /\ gone' = IF res.err = "" THEN gone \ {res.id} ELSE gone
                     /\ loc' = [loc EXCEPT ![p].id = res.id]
                     /\ IF res.err # "" THEN Finish(p, Failure(res.err))
                        ELSE Goto(p, "refresh")
            /\ nins' = nins + 1
            /\ afterReset' = FALSE
            /\ UNCHANGED <<seqLock, clock, req, tw, nreq>>
         [] pc[p] = "refresh" ->
            /\ LET db_task == get_task(rows, loc[p].id)
               IN  IF db_task = None THEN Finish(p, Failure("InvalidRequestError"))
                   ELSE Finish(p, Serialize(HTTP_201_CREATED, db_task))
            /\ UNCHANGED <<rows, seq, seqLock, clock, nins, req, loc, gone, afterReset, tw, nreq>>
         [] OTHER -> FALSE

\* GET /tasks/ : routers.list_tasks -> crud.get_tasks
list_tasks(p) ==
    /\ req[p].op = "list"
    /\ pc[p] = "select"
    /\ LET res == get_tasks(rows, req[p].skip, req[p].limit)
       IN  IF res.err # "" THEN Finish(p, Failure(res.err))
           ELSE Finish(p, SerializeList(res.tasks))
    /\ UNCHANGED <<rows, seq, seqLock, clock, nins, req, loc, gone, afterReset, tw, nreq>>

\* Faulty variant: the sequence is not restarted
RestartWith_not == seq

\* crud.reset_task_id_sequence: ALTER SEQUENCE tasks_id_seq RESTART WITH 1
RestartWith == 1

\* DELETE /tasks/reset : routers.reset_tasks -> crud.reset_task_id_sequence.
\* DELETE FROM tasks and ALTER SEQUENCE run in the session's one transaction;
\* both take effect for other sessions at the commit.
reset_tasks(p) ==
    /\ req[p].op = "reset"
    /\ CASE pc[p] = "delete_all" ->
            /\ \A r \in rows : ~Locked(r, p)
            /\ loc' = [loc EXCEPT ![p].del = {r.rid : r \in rows}]
            /\ Goto(p, "restart")
            /\ UNCHANGED <<rows, seq, seqLock, clock, nins, req, gone, afterReset, tw, nreq>>
         [] pc[p] = "restart" ->
            /\ seqLock = 0
            /\ seqLock' = p
            /\ Goto(p, "commit")
            /\ UNCHANGED <<rows, seq, clock, nins, req, loc, gone, afterReset, tw, nreq>>
         [] pc[p] = "commit" ->
            /\ rows' = {r \in rows : r.rid \notin loc[p].del}
            /\ seq' = RestartWith
            /\ seqLock' = 0
            /\ afterReset' = TRUE
            /\ loc' = [loc EXCEPT ![p].del = {}]
            /\ Finish(p, Plain(HTTP_204_NO_CONTENT))
            /\ UNCHANGED <<clock, nins, req, gone, tw, nreq>>
         [] OTHER -> FALSE

\* GET /tasks/{task_id} : routers.read_task -> crud.get_task
read_task(p) ==
    /\ req[p].op = "get"
    /\ pc[p] = "select"
    /\ LET task == get_task(rows, req[p].task_id)
       IN  IF task = None THEN Finish(p, Plain(HTTP_404_NOT_FOUND))
           ELSE Finish(p, Serialize(HTTP_200_OK, task))
    /\ UNCHANGED <<rows, seq, seqLock, clock, nins, req, loc, gone, afterReset, tw, nreq>>

\* crud.update_task, one database round trip per step: the step taken from
\* `step` on rows rs, as [step, rows, resp].  whenNone is the response of the
\* calling handler when crud.update_task returns None; now is the value
\* datetime.utcnow() returned.
crud_update_task(step, rs, task_id, task_update, now, whenNone) ==
    CASE step = "select" ->
            IF get_task(rs, task_id) = None
            THEN [step |-> "done", rows |-> rs, resp |-> whenNone]
            ELSE [step |-> "commit", rows |-> rs, resp |-> NoResp]
      [] step = "commit" ->
            LET res == UpdateTask(rs, task_id, model_dump_exclude_unset(task_update), now)
            IN  IF res.err # ""
                THEN [step |-> "done", rows |-> res.rows, resp |-> Failure(res.err)]
                ELSE [step |-> "refresh", rows |-> res.rows, resp |-> NoResp]
      [] step = "refresh" ->
            LET db_task == get_task(rs, task_id)
            IN  IF db_task = None
                THEN [step |-> "done", rows |-> rs, resp |-> Failure("InvalidRequestError")]
                ELSE [step |-> "done", rows |-> rs, resp |-> Serialize(HTTP_200_OK, db_task)]

\* routers.update_task (PUT): 404 when crud.update_task returns None
routers_update_task(step, rs, task_id, task, now) ==
    crud_update_task(step, rs, task_id, task, now, Plain(HTTP_404_NOT_FOUND))

\* Faulty variant: task.dict(exclude_none=True)
patch_update_exclude_none(task) ==
    TaskUpdate([k \in {f \in task.fields_set : task[f] # None} |-> task[k]])

\* task.dict(exclude_unset=True) fed back into schemas.TaskUpdate(**update_data)
patch_update(task) == TaskUpdate(model_dump_exclude_unset(task))

\* routers.patch_task (PATCH): the handler looks the task up itself, then
\* returns whatever crud.update_task returns
routers_patch_task(step, rs, task_id, task, now) ==
    IF step = "check"
    THEN IF get_task(rs, task_id) = None
         THEN [step |-> "done", rows |-> rs, resp |-> Plain(HTTP_404_NOT_FOUND)]
         ELSE [step |-> "select", rows |-> rs, resp |-> NoResp]
    ELSE crud_update_task(step, rs, task_id, patch_update(task), now,
                          Serialize(HTTP_200_OK, None))

\* A step of an update request of slot p.  updated_at is read from the clock
\* after the SELECT of crud.update_task returned and before its commit.
RunUpdate(p) ==
    /\ pc[p] \in {"check", "select", "commit", "refresh"}
    /\ pc[p] = "commit" => \A r \in get_task(rows, req[p].task_id) : ~Locked(r, p)
    /\ \E now \in (IF pc[p] = "commit" THEN loc[p].t0..clock ELSE {clock}) :
         LET task == TaskUpdate(req[p].body)
             res == IF req[p].op = "put"
                    THEN routers_update_task(pc[p], rows, req[p].task_id, task, now)
                    ELSE routers_patch_task(pc[p], rows, req[p].task_id, task, now)
         IN  /\ rows' = res.rows
             /\ pc' = [pc EXCEPT ![p] = res.step]
             /\ resp' = [resp EXCEPT ![p] = res.resp]
    /\ loc' = IF pc[p] = "select" THEN [loc EXCEPT ![p].t0 = clock] ELSE loc
    /\ UNCHANGED <<seq, seqLock, clock, nins, req, gone, afterReset, tw, nreq>>

\* PUT /tasks/{task_id}
update_task(p) ==
    /\ req[p].op = "put"
    /\ RunUpdate(p)

\* PATCH /tasks/{task_id}
patch_task(p) ==
    /\ req[p].op = "patch"
    /\ RunUpdate(p)

\* DELETE /tasks/{task_id} : routers.delete_task -> crud.delete_task
delete_task(p) ==
    /\ req[p].op = "delete"
    /\ CASE pc[p] = "select" ->
            /\ IF get_task(rows, req[p].task_id) = None
               THEN Finish(p, Plain(HTTP_404_NOT_FOUND))
               ELSE Goto(p, "commit")
            /\ UNCHANGED <<rows, seq, seqLock, clock, nins, req, loc, gone, afterReset, tw, nreq>>
         [] pc[p] = "commit" ->
            /\ \A r \in get_task(rows, req[p].task_id) : ~Locked(r, p)
            /\ LET res == DeleteTask(rows, req[p].task_id)
               IN  /\ rows' = res.rows
                   /\ Finish(p, [Plain(HTTP_204_NO_CONTENT) EXCEPT !.matched = res.matched])
            /\ gone' = gone \cup {req[p].task_id}
            /\ UNCHANGED <<seq, seqLock, clock, nins, req, loc, afterReset, tw, nreq>>
         [] OTHER -> FALSE

Handle(p) ==
    \/ create_task(p)
    \/ list_tasks(p)
    \/ reset_tasks(p)
    \/ read_task(p)
    \/ update_task(p)
    \/ patch_task(p)
    \/ delete_task(p)
    \/ Return(p)

Idle == \A p \in Procs : pc[p] = "idle"

\* Requests of concurrent clients
Next ==
    \/ \E p \in Procs : Receive(p, RequestsOf(FewCreateBodies, FewUpdateBodies, {0}, {100}))
    \/ \E p \in Procs : Handle(p)
    \/ Tick

Spec == Init /\ [][Next]_vars

\* One client, one request at a time
NextSeq ==
    \/ Idle /\ Receive(1, RequestsOf(CreateBodies, UpdateBodies, Skips, Limits))
    \/ Handle(1)
    \/ Tick

SpecSeq == Init /\ [][NextSeq]_vars

--------------------------------------------------------------------------
(* PUT and PATCH side by side.  The same update request is run once through
   routers.update_task on rowsA and once through routers.patch_task on rowsB,
   from the same rows and with the same clock reading, while another request
   may delete the target row in both. *)

StoreA == InsertTask({}, 1, 1, TaskCreate([title |-> Some("a")]), 0, 0).rows
StoreB ==
    InsertTask({}, 1, 1, TaskCreate([title |-> Some("a"), description |-> Some("x")]),
               0, 0).rows
StoreC ==
    InsertTask(StoreA, 2, 2,
               TaskCreate([title |-> Some("a"), description |-> Some("x")]), 0, 0).rows

TwStores == {{}, StoreA, StoreB, StoreC}

TwStarts ==
    {[pcA |-> "select", pcB |-> "check", rowsA |-> rs, rowsB |-> rs,
      respA |-> NoResp, respB |-> NoResp, task_id |-> i, body |-> b, now |-> n] :
        rs \in TwStores, i \in TaskIds, b \in UpdateBodies, n \in 0..MaxClock}

InitTwin == InitStore /\ tw \in TwStarts

\* Where a run stands: 0 before its first lookup, 1 in progress, 2 finished
Phase(step, first) == IF step = first THEN 0 ELSE IF step = "done" THEN 2 ELSE 1

main == <<rows, seq, seqLock, clock, nins, nreq, pc, req, loc, resp, gone, afterReset>>

TwPut ==
    /\ tw.pcA \in {"select", "commit", "refresh"}
    /\ LET res == routers_update_task(tw.pcA, tw.rowsA, tw.task_id,
                                      TaskUpdate(tw.body), tw.now)
       IN  tw' = [tw EXCEPT !.pcA = res.step, !.rowsA = res.rows, !.respA = res.resp]
    /\ UNCHANGED main

TwPatch ==
    /\ tw.pcA # "off"
    /\ tw.pcB \in {"check", "select", "commit", "refresh"}
    /\ LET res == routers_patch_task(tw.pcB, tw.rowsB, tw.task_id,
                                     TaskUpdate(tw.body), tw.now)
       IN  tw' = [tw EXCEPT !.pcB = res.step, !.rowsB = res.rows, !.respB = res.resp]
    /\ UNCHANGED main

\* The delete-by-id of another client commits, at the same point of both runs
TwRemove ==
    /\ tw.pcA # "off"
    /\ Phase(tw.pcA, "select") = Phase(tw.pcB, "check")
    /\ get_task(tw.rowsA, tw.task_id) # None \/ get_task(tw.rowsB, tw.task_id) # None
    /\ tw' = [tw EXCEPT !.rowsA = DeleteTask(tw.rowsA, tw.task_id).rows,
                        !.rowsB = DeleteTask(tw.rowsB, tw.task_id).rows]
    /\ UNCHANGED main

NextTwin == TwPut \/ TwPatch \/ TwRemove

SpecTwin == InitTwin /\ [][NextTwin]_vars

--------------------------------------------------------------------------
(* Properties *)

\* Slot p takes a step
Stepped(p) == pc'[p] # pc[p]

\* The stored rows whose id is the id of p's request
Target(p) == {r \in rows : r.id = req[p].task_id}

SingleRowOps == {"get", "put", "patch", "delete"}

\* C1: when the first lookup of a get, PUT, PATCH or delete-by-id runs and no
\* stored row has the requested id, the request ends with 404 and the rows and
\* the id sequence are unchanged.
C1_AbsentIdNotFound ==
    [][\A p \in Procs :
          (/\ req[p].op \in SingleRowOps
           /\ pc[p] = FirstStep(req[p].op)
           /\ Target(p) = {}
           /\ Stepped(p))
          => (/\ pc'[p] = "done"
              /\ resp'[p] = Plain(HTTP_404_NOT_FOUND)
              /\ rows' = rows
              /\ seq' = seq)]_vars

\* Each of the four operations has answered 404 while other rows are stored
C1_Witness ==
    \E p \in Procs :
        /\ pc[p] = "done"
        /\ req[p].op = "patch"
        /\ resp[p].status = HTTP_404_NOT_FOUND
        /\ rows # {}

\* C7: the commit of a delete-by-id removes exactly the rows of that id, leaves
\* the sequence alone and answers 204, a delete whose lookup finds the row goes
\* on to that commit, and a delete of an id that a 204 delete removed and no
\* create was assigned since answers 404.
C7_DeleteTwice ==
    [][\A p \in Procs :
          (req[p].op = "delete" /\ Stepped(p)) =>
             /\ (pc[p] = "select" /\ Target(p) # {}) => pc'[p] = "commit"
             /\ (pc[p] = "select" /\ req[p].task_id \in gone) =>
                    (pc'[p] = "done" /\ resp'[p] = Plain(HTTP_404_NOT_FOUND)
                     /\ rows' = rows)
             /\ pc[p] = "commit" =>
                    /\ rows' = rows \ Target(p)
                    /\ seq' = seq
                    /\ pc'[p] = "done"
                    /\ resp'[p].status = HTTP_204_NO_CONTENT]_vars

\* A second delete of a deleted id has answered 404
C7_Witness ==
    \E p \in Procs :
        /\ pc[p] = "done"
        /\ req[p].op = "delete"
        /\ resp[p].status = HTTP_404_NOT_FOUND
        /\ req[p].task_id \in gone

UniqueIds == \A r1, r2 \in rows : r1.id = r2.id => r1 = r2

IdStable == \A r \in rows : \A s \in rows' : r.rid = s.rid => r.id = s.id

\* C10: no two stored rows share an id, and a row keeps its id from its
\* insertion to its deletion, under every interleaving of requests.
C10_IdUniqueStable == []UniqueIds /\ [][IdStable]_vars

\* A row committed while a reset was in flight survived it, and a later create
\* that drew the survivor's id from the restarted sequence was rejected
C10_Witness ==
    \E p \in Procs :
        /\ pc[p] = "done"
        /\ req[p].op = "create"
        /\ resp[p].err = "IntegrityError"
        /\ \E r \in rows : r.id = loc[p].id

\* C5: a finished single-row request either succeeded on a row that existed
\* (200 with the record, or 204 with one row deleted) or answered 404.
C5_SingleRowAtomic ==
    \A p \in Procs :
        (pc[p] = "done" /\ req[p].op \in SingleRowOps) =>
            \/ resp[p] = Plain(HTTP_404_NOT_FOUND)
            \/ resp[p].status = HTTP_200_OK /\ resp[p].task # None
            \/ resp[p].status = HTTP_204_NO_CONTENT /\ resp[p].matched = 1

\* C8: every stored row has updated_at >= created_at.
C8_UpdatedNotBeforeCreated == \A r \in rows : r.updated_at >= r.created_at

\* The commit of an update request of slot p whose row is stored
UpdateCommits(p) ==
    /\ req[p].op \in {"put", "patch"}
    /\ pc[p] = "commit"
    /\ Stepped(p)
    /\ Target(p) # {}

\* Row new is row old with exactly the fields of the request body replaced
AppliedTo(old, new, body) ==
    /\ new.rid = old.rid
    /\ new.id = old.id
    /\ new.created_at = old.created_at
    /\ \A k \in UpdateFields :
          new[k] = IF k \in DOMAIN body THEN body[k] ELSE old[k]

\* The update of p replaced its row by one with the supplied fields applied
\* and updated_at read from the clock during the request
UpdateApplied(p) ==
    \A old \in Target(p) :
        \E new \in rows' :
            /\ AppliedTo(old, new, req[p].body)
            /\ new.updated_at \in loc[p].t0..clock
            /\ rows' \ {new} = rows \ {old}

\* C2, as claimed: an update of a stored row applies every supplied field,
\* a null included, keeps every other field and refreshes updated_at.
C2_AppliesSuppliedFields ==
    [][\A p \in Procs : UpdateCommits(p) => UpdateApplied(p)]_vars

\* The values the columns of the table take: a title, if supplied, is not null
\* and at most 100 characters, a description at most 500
StoreAccepts(body) ==
    /\ "title" \in DOMAIN body =>
          (body.title # None /\ Len(Val(body.title)) <= TitleMax)
    /\ "description" \in DOMAIN body =>
          (body.description = None \/ Len(Val(body.description)) <= DescMax)

\* C2, amended: an update of a stored row whose supplied values the table
\* accepts applies exactly the supplied fields (a null description or a null
\* completed included), keeps every other field and refreshes updated_at; an
\* update that supplies a null title or an over-long title or description
\* fails with 500 and leaves every row unchanged.
C2_AppliesAcceptedFields ==
    [][\A p \in Procs :
          UpdateCommits(p) =>
             IF StoreAccepts(req[p].body) THEN UpdateApplied(p)
             ELSE /\ rows' = rows
                  /\ pc'[p] = "done"
                  /\ resp'[p].status = HTTP_500_INTERNAL_SERVER_ERROR]_vars

\* A PATCH of only {completed: true} was applied: completed and updated_at
\* changed, title and description kept
C2_Witness ==
    \E p \in Procs :
        /\ pc[p] = "refresh"
        /\ req[p].op = "patch"
        /\ req[p].body = [completed |-> Some(TRUE)]
        /\ \E r \in Target(p) :
              /\ r.completed = Some(TRUE)
              /\ r.title = Some("a")
              /\ r.description = None
              /\ r.updated_at > r.created_at

C4_CreateTitleOnly ==
    \A p \in Procs :
        (/\ pc[p] = "done"
         /\ req[p].op = "create"
         /\ DOMAIN req[p].body = {"title"}
         /\ Len(Val(req[p].body.title)) <= TitleMax)
        => /\ resp[p].status = HTTP_201_CREATED
           /\ \E t \in resp[p].task :
                 /\ t.title = req[p].body.title
                 /\ t.completed = Some(FALSE)
                 /\ t.created_at = t.updated_at
                 /\ ValidTaskResponse(t)

\* C9: a list request with non-negative skip and limit answers 200 with the
\* stored rows after the first skip, at most limit of them, and their count.
C9_ListNeverFails ==
    \A p \in Procs :
        (/\ pc[p] = "done"
         /\ req[p].op = "list"
         /\ req[p].skip >= 0
         /\ req[p].limit >= 0)
        => /\ resp[p].status = HTTP_200_OK
           /\ resp[p].count = Len(resp[p].tasks)
           /\ Len(resp[p].tasks) <= req[p].limit
           /\ \A i \in 1..Len(resp[p].tasks) :
                 resp[p].tasks[i] = TaskResponse(Scan(rows)[req[p].skip + i])
           /\ Len(resp[p].tasks) < req[p].limit =>
                 Len(resp[p].tasks) = IF Cardinality(rows) > req[p].skip
                                      THEN Cardinality(rows) - req[p].skip ELSE 0

\* What a client sees of a response
Visible(r) == [status |-> r.status, task |-> r.task, tasks |-> r.tasks, count |-> r.count]

\* C6: the same update request answers the same through PUT and through PATCH
\* and leaves the same rows, also when the target row is deleted before, during
\* or after the request.
C6_PutPatchIdentical ==
    (tw.pcA = "done" /\ tw.pcB = "done") =>
        /\ Visible(tw.respA) = Visible(tw.respB)
        /\ tw.rowsA = tw.rowsB

\* Both runs found the row, which was then deleted under them: PUT failed in
\* its UPDATE, PATCH in serialising the None crud.update_task returned
C6_Witness ==
    /\ tw.pcA = "done"
    /\ tw.pcB = "done"
    /\ tw.respA.err = "StaleDataError"
    /\ tw.respB.err = "ResponseValidationError"
    /\ tw.body = [completed |-> Some(TRUE)]

====
